---- MODULE Spec2Model ----
(***************************************************************************)
(* terminator: run a command on a pseudo-terminal and relay its input and  *)
(* output.  The module models main() of terminator.c (PTY setup, fork,     *)
(* the two pump threads, waitpid, joins, exit status), the child's setup,  *)
(* and redirection_thread_fn() one system call at a time, together with    *)
(* the environment the pumps talk to (standard input, the PTY master, the  *)
(* child, standard output).                                                *)
(***************************************************************************)
EXTENDS Integers, Naturals, Sequences, FiniteSets, TLC

(* ------------------------------ bounds -------------------------------- *)

\* Number of bytes the environment feeds to the parent's standard input.
MaxIn == 2

\* Number of bytes the child writes to its terminal.
MaxOut == 2

\* Number of system calls the environment lets fail in one run.
MaxFaults == 1

\* Number of bytes a destination takes in one run; after that it never
\* reports POLLOUT again.
MaxDelivered == 3

\* Number of writes reaching outside its buffer that a pump is followed
\* through; its destination does not report POLLOUT for a further one.
MaxWild == 1

\* Capacity of a pump's buffer (BUFSIZ in the source, scaled down).
BUFFER_SIZE == 2

\* Width of size_t in bits (scaled down); size_t arithmetic is modulo 2^w.
SIZE_BITS == 3

(* --------------------------- program constants ------------------------ *)

EXIT_FAILURE == 1

STDIN_FILENO == 0

STDOUT_FILENO == 1

\* The descriptor posix_openpt returns (lowest free descriptor).
FDM == 3

\* The end-of-transmission byte.
eot_char == 4

\* A buffer cell no read has filled yet (char buffer[BUFFER_SIZE] is not
\* initialised).
Uninit == -1

\* Values a byte of uninitialised memory, or of the stack around the buffer,
\* may hold.
StackBytes == {0, 255}

SIZE_MOD == 2 ^ SIZE_BITS

\* (size_t)-1, what a failed read or write leaves in n_read / n_written.
SIZE_MAX == SIZE_MOD - 1

\* Exit codes the command may terminate with, and signals that may kill it.
ExitCodes == {0, 7, 255}

Signals == {9}

\* The ways a child can terminate.
Terminations ==
    [kind : {"exit"}, val : ExitCodes \cup {EXIT_FAILURE}]
      \cup [kind : {"signal"}, val : Signals]

POLLIN == "POLLIN"

POLLOUT == "POLLOUT"

POLLHUP == "POLLHUP"

\* The two pump threads: 0 is reader_thread, 1 is writer_thread.
Pumps == {0, 1}

(* ------------------------------- state -------------------------------- *)

VARIABLES
    argc,        \* main's argument count
    mainpc,      \* main's position in the parent process
    proc,        \* "running", "exited" (exit() was called) or "returned"
    exitstatus,  \* main's exitstatus variable
    exitcode,    \* the status the process terminated with (-1 while running)
    fdm,         \* the master descriptor: "none", "open", "closed"
    fds,         \* the parent's slave descriptor: "none", "open", "closed"
    failedAt,    \* the setup step whose assertion failed ("" if none)
    child,       \* "none", "setup", "running", "exited", "reaped"
    childInfo,   \* what the child did: calls made, exec reached, termination
    status,      \* main's status variable, filled by waitpid
    all_done,    \* the static flag shared by the pump threads
    pump,        \* per pump: the locals of redirection_thread_fn
    hist,        \* per pump: record of the system calls it has made
    inAvail,     \* bytes waiting on standard input
    inClosed,    \* standard input's writer has closed it
    mAvail,      \* bytes the child wrote that wait on the master
    faults       \* system calls that failed so far

vars == <<argc, mainpc, proc, exitstatus, exitcode, fdm, fds, failedAt, child,
          childInfo, status, all_done, pump, hist, inAvail, inClosed, mAvail,
          faults>>

mainVars == <<argc, mainpc, proc, exitstatus, exitcode, fdm, fds, failedAt,
              status>>

childVars == <<child, childInfo>>

envVars == <<inAvail, inClosed, mAvail>>

pumpVars == <<all_done, pump, hist>>

(* ------------------------------ helpers ------------------------------- *)

Min(a, b) == IF a < b THEN a ELSE b

IsPrefix(s, t) == Len(s) <= Len(t) /\ \A i \in 1..Len(s) : s[i] = t[i]

\* struct redirection_info reader_info / writer_info.
reader_info == [id |-> 0, in_fd |-> STDIN_FILENO, out_fd |-> FDM,
                send_eot |-> TRUE, end_all |-> FALSE]

writer_info == [id |-> 1, in_fd |-> FDM, out_fd |-> STDOUT_FILENO,
                send_eot |-> FALSE, end_all |-> TRUE]

info(p) == IF p = 0 THEN reader_info ELSE writer_info

\* The locals of redirection_thread_fn as they are set before the loop.
PumpLocals(p, pc) ==
    [pc |-> pc, keep_going |-> TRUE, found_eof |-> FALSE,
     fd0 |-> info(p).in_fd, fd1 |-> info(p).out_fd,
     buffer |-> [i \in 0..(BUFFER_SIZE - 1) |-> Uninit],
     buffer_length |-> 0, buffer_offset |-> 0]

\* What a pump has done so far: bytes read, buffer_length at its last read,
\* bytes delivered, end-of-transmission and zero-length writes that
\* succeeded, whether it called write on descriptor -1, whether one of its
\* calls (poll, read, write, fsync) returned -1, and the writes it issued
\* that reached outside the buffer.
NoCalls == [nread |-> 0, rdlen |-> 0, wr |-> <<>>, eots |-> 0, zeros |-> 0,
            badfd |-> FALSE, iofail |-> FALSE, wild |-> 0]

\* An assertion that prints the diagnostic and goes on.
AssertFails_goes_on ==
    /\ proc' = proc
    /\ exitcode' = exitcode

\* ASSERT(X) with X false: perror and exit(EXIT_FAILURE) end the process.
AssertFails ==
    /\ proc' = "exited"
    /\ exitcode' = EXIT_FAILURE

\* The environment may let one more system call fail.
MayFail == faults < MaxFaults

\* The order of the asserted set-up calls of main, lines 75-88.
MainSetup == <<"argc", "posix_openpt", "grantpt", "unlockpt", "open", "fork">>

\* The asserted calls of the child between fork and the command, lines 95-119.
ChildSetup == <<"I_PUSH", "tcgetattr", "tcsetattr", "setsid", "dup2",
                "close", "TIOCSCTTY", "execvp">>

IndexOf(seq, x) == CHOOSE i \in 1..Len(seq) : seq[i] = x

\* The statement main runs after the set-up call x has succeeded.
AfterSetup(x) ==
    IF x = "fork" THEN "create_reader" ELSE MainSetup[IndexOf(MainSetup, x) + 1]

\* The wait status the kernel reports for a termination, and the macros
\* main decodes it with.
WaitStatus(t) == IF t.kind = "exit" THEN t.val * 256 ELSE t.val

WIFEXITED(s) == s % 128 = 0

\* An exit status cut to seven bits.
WEXITSTATUS_7bit(s) == (s \div 256) % 128

WEXITSTATUS(s) == (s \div 256) % 256

\* The master reports hang-up when no descriptor of the slave is open: the
\* parent has closed its copy and the child is gone.
SlaveOpen == fds = "open" \/ child \in {"setup", "running"}

MasterHup == ~SlaveOpen

(* ------------------------------- Init --------------------------------- *)

Init ==
    /\ argc \in {1, 2}
    /\ mainpc = "argc"
    /\ proc = "running"
    /\ exitstatus = EXIT_FAILURE
    /\ exitcode = -1
    /\ fdm = "none"
    /\ fds = "none"
    /\ failedAt = ""
    /\ child = "none"
    /\ childInfo = [calls |-> 0, failed |-> "", execed |-> FALSE,
                    term |-> [kind |-> "none", val |-> 0]]
    /\ status = 0
    /\ all_done = FALSE
    /\ pump = [p \in Pumps |-> PumpLocals(p, "idle")]
    /\ hist = [p \in Pumps |-> NoCalls]
    /\ inAvail = 0
    /\ inClosed = FALSE
    /\ mAvail = 0
    /\ faults = 0

(* ------------------------------- main --------------------------------- *)

\* One asserted set-up call of main (lines 75-88): the argument check, then
\* posix_openpt, grantpt, unlockpt, open of the slave, fork.
MainSetupStep ==
    /\ proc = "running"
    /\ mainpc \in {MainSetup[i] : i \in 1..Len(MainSetup)}
    /\ \/ /\ IF mainpc = "argc" THEN argc <= 1 ELSE MayFail
          /\ failedAt' = mainpc
          /\ faults' = IF mainpc = "argc" THEN faults ELSE faults + 1
          /\ AssertFails
          /\ UNCHANGED <<argc, mainpc, exitstatus, fdm, fds, status,
                         childVars, pumpVars, envVars>>
       \/ /\ mainpc = "argc" => argc > 1
          /\ mainpc' = AfterSetup(mainpc)
          /\ fdm' = IF mainpc = "posix_openpt" THEN "open" ELSE fdm
          /\ fds' = IF mainpc = "open" THEN "open" ELSE fds
          /\ child' = IF mainpc = "fork" THEN "setup" ELSE child
          /\ UNCHANGED <<argc, proc, exitstatus, exitcode, failedAt, status,
                         childInfo, pumpVars, envVars, faults>>

\* pthread_create of one pump thread (lines 132-136).
CreateThread(p) ==
    /\ proc = "running"
    /\ mainpc = (IF p = 0 THEN "create_reader" ELSE "create_writer")
    /\ mainpc' = (IF p = 0 THEN "create_writer" ELSE "close_fds")
    /\ pump' = [pump EXCEPT ![p] = PumpLocals(p, "while")]
    /\ UNCHANGED <<argc, proc, exitstatus, exitcode, fdm, fds, failedAt,
                   status, childVars, all_done, hist, envVars, faults>>

\* A close that leaves the descriptor as it was.
Closed_leak(f) == f

\* The descriptor after a successful close(fds) (line 138).
Closed(f) == "closed"

\* ASSERT_ZERO(close(fds)) in the parent (line 138).
CloseFds ==
    /\ proc = "running"
    /\ mainpc = "close_fds"
    /\ \/ /\ MayFail
          /\ faults' = faults + 1
          /\ AssertFails
          /\ UNCHANGED <<argc, mainpc, exitstatus, fdm, fds, failedAt, status,
                         childVars, pumpVars, envVars>>
       \/ /\ mainpc' = "waitpid"
          /\ fds' = Closed(fds)
          /\ UNCHANGED <<argc, proc, exitstatus, exitcode, fdm, failedAt,
                         status, childVars, pumpVars, envVars, faults>>

\* ASSERT_NONNEG(waitpid(pid, &status, 0)) (line 141): blocks until the
\* child has terminated and collects it.  The wait status it stores is
\* drawn where main first reads it (line 152): nothing reads it earlier.
Waitpid ==
    /\ proc = "running"
    /\ mainpc = "waitpid"
    /\ \/ /\ MayFail
          /\ faults' = faults + 1
          /\ AssertFails
          /\ UNCHANGED <<argc, mainpc, exitstatus, fdm, fds, failedAt, status,
                         childVars, pumpVars, envVars>>
       \/ /\ child = "exited"
          /\ child' = "reaped"
          /\ mainpc' = "join_reader"
          /\ UNCHANGED <<argc, proc, exitstatus, exitcode, fdm, fds, failedAt,
                         status, childInfo, pumpVars, envVars, faults>>

\* A join that returns at once.
Terminated_nowait(p) == TRUE

\* The thread function of pump p has returned (line 279).
Terminated(p) == pump[p].pc = "done"

\* pthread_join of one pump thread (lines 147-148): returns once the thread
\* function has returned.
Join(p) ==
    /\ proc = "running"
    /\ mainpc = (IF p = 0 THEN "join_reader" ELSE "join_writer")
    /\ Terminated(p)
    /\ mainpc' = (IF p = 0 THEN "join_writer" ELSE "wifexited")
    /\ UNCHANGED <<argc, proc, exitstatus, exitcode, fdm, fds, failedAt,
                   status, childVars, pumpVars, envVars, faults>>

\* main's exitstatus after lines 152-154 for the wait status st.
Captured(st, old) == IF WIFEXITED(st) THEN WEXITSTATUS(st) ELSE old

\* if (WIFEXITED(status)) exitstatus = WEXITSTATUS(status) (lines 152-154).
\* status holds the wait status of the way the child terminated: the exit
\* code of the command or a signal, or EXIT_FAILURE after a failed set-up.
CaptureStatus ==
    /\ proc = "running"
    /\ mainpc = "wifexited"
    /\ \E t \in Terminations :
         /\ childInfo.failed # "" => t = childInfo.term
         /\ childInfo' = [childInfo EXCEPT !.term = t]
         /\ status' = WaitStatus(t)
         /\ exitstatus' = Captured(WaitStatus(t), exitstatus)
    /\ mainpc' = "close_fdm"
    /\ UNCHANGED <<argc, proc, exitcode, fdm, fds, failedAt, child,
                   pumpVars, envVars, faults>>

\* ASSERT_ZERO(close(fdm)) (line 157).
CloseFdm ==
    /\ proc = "running"
    /\ mainpc = "close_fdm"
    /\ \/ /\ MayFail
          /\ faults' = faults + 1
          /\ AssertFails
          /\ UNCHANGED <<argc, mainpc, exitstatus, fdm, fds, failedAt, status,
                         childVars, pumpVars, envVars>>
       \/ /\ fdm' = "closed"
          /\ mainpc' = "return"
          /\ UNCHANGED <<argc, proc, exitstatus, exitcode, fds, failedAt,
                         status, childVars, pumpVars, envVars, faults>>

\* return exitstatus (line 161).
Return ==
    /\ proc = "running"
    /\ mainpc = "return"
    /\ proc' = "returned"
    /\ exitcode' = exitstatus
    /\ mainpc' = "returned"
    /\ UNCHANGED <<argc, exitstatus, fdm, fds, failedAt, status, childVars,
                   pumpVars, envVars, faults>>

(* ------------------------------ the child ----------------------------- *)

\* The child between fork and the command (lines 90-120): the asserted calls
\* of ChildSetup run in order; the first that fails ends the child with
\* exit(EXIT_FAILURE), and if none fails execvp starts the command.  The
\* child keeps the slave open throughout, so the parent sees none of it.
ChildSetupRun ==
    /\ proc = "running"
    /\ child = "setup"
    /\ \/ /\ child' = "running"
          /\ childInfo' = [childInfo EXCEPT !.calls = Len(ChildSetup),
                                            !.execed = TRUE]
          /\ UNCHANGED faults
       \/ \E k \in 1..Len(ChildSetup) :
            /\ MayFail
            /\ faults' = faults + 1
            /\ child' = "exited"
            /\ childInfo' = [childInfo EXCEPT
                               !.calls = k,
                               !.failed = ChildSetup[k],
                               !.term = [kind |-> "exit", val |-> EXIT_FAILURE]]
    /\ UNCHANGED <<mainVars, pumpVars, envVars>>

\* The command writes one byte to its terminal.
ChildWrite ==
    /\ proc = "running"
    /\ child = "running"
    /\ hist[1].nread + mAvail < MaxOut
    /\ mAvail' = mAvail + 1
    /\ UNCHANGED <<mainVars, childVars, pumpVars, inAvail, inClosed, faults>>

\* The command terminates.  How it terminated (exit code or signal) is
\* recorded when waitpid collects it: nothing observes it earlier.
ChildExit ==
    /\ proc = "running"
    /\ child = "running"
    /\ child' = "exited"
    /\ UNCHANGED <<mainVars, childInfo, pumpVars, envVars, faults>>

(* ---------------------- the parent's standard input ------------------- *)

\* One more byte arrives on the parent's standard input.
StdinFeed ==
    /\ proc = "running"
    /\ ~inClosed
    /\ hist[0].nread + inAvail < MaxIn
    /\ inAvail' = inAvail + 1
    /\ UNCHANGED <<mainVars, childVars, pumpVars, inClosed, mAvail, faults>>

\* The writer of the parent's standard input closes it.
StdinClose ==
    /\ proc = "running"
    /\ ~inClosed
    /\ inClosed' = TRUE
    /\ UNCHANGED <<mainVars, childVars, pumpVars, inAvail, mAvail, faults>>

(* ------------------------- redirection_thread_fn ---------------------- *)

\* A value stored in a size_t: -1 becomes SIZE_MAX.
SizeT(x) == x % SIZE_MOD

\* A loop condition that does not look at the flag.
KeepGoing_noflag(kg, done) == kg

\* keep_going &= !all_done (line 185).
KeepGoing(kg, done) == kg /\ ~done

\* A loop condition that does not look at the buffer.
LoopContinues_flagonly(kg, len) == kg

\* The loop condition (line 185) once keep_going is updated.
LoopContinues(kg, len) == kg \/ len # 0

\* A hang-up check that does not look at POLLIN.
SourceHup_any(r0) == POLLHUP \in r0

\* Hang-up on the source without readable data (line 188).
SourceHup(r0) == POLLHUP \in r0 /\ POLLIN \notin r0

\* Hang-up on the destination (line 196).
DestHup(r1) == POLLHUP \in r1

\* A read condition that does not look at the buffer.
ReadCondition_nonempty(kg, eof, r0, len) == kg /\ ~eof /\ POLLIN \in r0

\* The condition of the read (line 206).
ReadCondition(kg, eof, r0, len) == kg /\ ~eof /\ POLLIN \in r0 /\ len = 0

\* The write stays inside the buffer.
InBuffer(l) == l.buffer_offset + l.buffer_length <= BUFFER_SIZE

\* The number of bytes the destination of pump p still takes.
Room(p) ==
    IF ~InBuffer(pump[p]) /\ hist[p].wild >= MaxWild THEN 0
    ELSE MaxDelivered - Len(hist[p].wr)

\* The events poll can report for the source of pump p.  A descriptor of -1
\* is ignored by poll.  Standard input: readable while bytes wait; once it
\* is closed and drained it reports end-of-file as POLLIN (read returns 0),
\* as POLLHUP, or as both, depending on what kind of file it is.  The
\* master: readable while bytes of the child wait, hang-up once the slave
\* is closed everywhere.
SrcEvents(p) ==
    IF pump[p].fd0 = -1 THEN {{}}
    ELSE IF p = 0
    THEN IF inAvail > 0
         THEN {{POLLIN}} \cup (IF inClosed THEN {{POLLIN, POLLHUP}} ELSE {})
         ELSE IF inClosed THEN {{POLLIN}, {POLLHUP}, {POLLIN, POLLHUP}}
         ELSE {{}}
    ELSE {(IF mAvail > 0 THEN {POLLIN} ELSE {})
            \cup (IF MasterHup THEN {POLLHUP} ELSE {})}

\* The events poll can report for the destination of pump p.  The master
\* may or may not have room; after the hang-up it reports POLLHUP, with or
\* without POLLOUT.  Standard output may have room or not, and its reader
\* may have gone away.
DstEvents(p) ==
    LET out == IF Room(p) > 0 THEN {{}, {POLLOUT}} ELSE {{}}
    IN IF pump[p].fd1 = -1 THEN {{}}
       ELSE IF p = 0
       THEN IF MasterHup THEN {r \cup {POLLHUP} : r \in out} ELSE out
       ELSE out \cup {r \cup {POLLHUP} : r \in out}

\* The locals after the two hang-up checks (lines 188-204) for the events
\* r0, r1 that poll reported, and the statement the pump reaches next: the
\* read (line 209), the writes (line 225) or the loop condition.  The
\* revents are not kept: all that is read of them later is POLLOUT, which
\* the position "write" stands for, and the next poll rewrites them.
AfterPoll(l, r0, r1) ==
    LET eof == l.found_eof \/ SourceHup(r0)
        kg  == l.keep_going /\ ~DestHup(r1)
        len == IF DestHup(r1) THEN 0 ELSE l.buffer_length
    IN [l EXCEPT
          !.fd0 = IF SourceHup(r0) THEN -1 ELSE @,
          !.found_eof = eof,
          !.fd1 = IF DestHup(r1) THEN -1 ELSE @,
          !.keep_going = kg,
          !.buffer_offset = IF DestHup(r1) THEN 0 ELSE @,
          !.buffer_length = len,
          !.pc = IF ReadCondition(kg, eof, r0, len) THEN "read"
                 ELSE IF POLLOUT \in r1 THEN "write"
                 ELSE "while"]

\* The pump may leave the poll with the read still to do.
Reads(l) == l.pc = "read"

\* The source has n bytes waiting for pump p.
Avail(p) == IF p = 0 THEN inAvail ELSE mAvail

\* The values read(poll_fds[0].fd, buffer, BUFFER_SIZE) can return (line
\* 209): up to BUFFER_SIZE of the waiting bytes, 0 at end-of-file of
\* standard input, or -1 when the call fails.
ReadReturns(p) ==
    (1..Min(Avail(p), BUFFER_SIZE))
      \cup (IF p = 0 /\ inAvail = 0 /\ inClosed THEN {0} ELSE {})
      \cup (IF MayFail THEN {-1} ELSE {})

\* The locals after the read returned ret, nread bytes having been read
\* before (lines 209-223).  n_read is a size_t, so ASSERT_NONNEG never
\* fails and a return value of -1 is stored as SIZE_MAX.  The k-th byte of
\* a stream is the number k.
AfterRead(l, r1, ret, nread) ==
    LET n_read == SizeT(ret)
    IN [l EXCEPT
          !.buffer = [i \in DOMAIN @ |->
                        IF ret > 0 /\ i < ret THEN nread + i + 1 ELSE @[i]],
          !.buffer_offset = 0,
          !.buffer_length = n_read,
          !.fd0 = IF n_read = 0 THEN -1 ELSE @,
          !.found_eof = IF n_read = 0 THEN TRUE ELSE @,
          !.pc = IF POLLOUT \in r1 THEN "write" ELSE "while"]

\* One pass of the loop up to the writes (lines 185-223): the loop
\* condition holds, poll reports the ready events or none after the
\* timeout, the hang-up checks run, and the source is read if line 206
\* says so.  A failing poll ends the process; a failing read does not.
Iterate(p) ==
    /\ proc = "running"
    /\ pump[p].pc = "while"
    /\ LoopContinues(KeepGoing(pump[p].keep_going, all_done),
                     pump[p].buffer_length)
    /\ LET l0 == [pump[p] EXCEPT
                    !.keep_going = KeepGoing(@, all_done)]
       IN \/ /\ MayFail
             /\ faults' = faults + 1
             /\ hist' = [hist EXCEPT ![p].iofail = TRUE]
             /\ pump' = [pump EXCEPT ![p] = l0]
             /\ AssertFails
             /\ UNCHANGED <<argc, mainpc, exitstatus, fdm, fds, failedAt,
                            status, childVars, envVars, all_done>>
          \/ \E r0 \in SrcEvents(p), r1 \in DstEvents(p) :
               LET l1 == AfterPoll(l0, r0, r1)
               IN IF Reads(l1)
                  THEN \E ret \in ReadReturns(p) :
                         /\ pump' = [pump EXCEPT
                                       ![p] = AfterRead(l1, r1, ret, hist[p].nread)]
                         /\ hist' = [hist EXCEPT
                                       ![p].nread = IF ret > 0 THEN @ + ret ELSE @,
                                       ![p].rdlen = l1.buffer_length,
                                       ![p].iofail = @ \/ ret = -1]
                         /\ inAvail' = IF p = 0 /\ ret > 0 THEN inAvail - ret
                                       ELSE inAvail
                         /\ mAvail' = IF p = 1 /\ ret > 0 THEN mAvail - ret
                                      ELSE mAvail
                         /\ faults' = IF ret = -1 THEN faults + 1 ELSE faults
                         /\ UNCHANGED <<mainVars, childVars, all_done, inClosed>>
                  ELSE /\ pump' = [pump EXCEPT ![p] = l1]
                       /\ UNCHANGED <<mainVars, childVars, envVars, all_done,
                                      hist, faults>>

\* The byte at buffer + i: the content of a cell a read has filled, and g,
\* whatever the memory holds, for an unfilled cell or an address outside the
\* buffer.
ByteAt(buf, i, g) ==
    IF i < BUFFER_SIZE /\ buf[i] # Uninit THEN buf[i] ELSE g

\* The k bytes a write takes from buffer + buffer_offset.
BytesFrom(l, k, g) ==
    [j \in 1..k |-> ByteAt(l.buffer, SizeT(l.buffer_offset + j - 1), g)]

\* The descriptor is the master and the slave is closed: write fails (EIO).
DeadMaster(fd) == fd = FDM /\ MasterHup

\* An offset that a write does not advance.
AdvanceOffset_stuck(off, n_written) == off

\* buffer_offset += n_written; buffer_length -= n_written (lines 233-234).
AdvanceOffset(off, n_written) == SizeT(off + n_written)

ReduceLength(len, n_written) == SizeT(len + SIZE_MOD - n_written)

\* The values write(poll_fds[1].fd, buffer + buffer_offset, buffer_length)
\* can return (line 229): a partial or full count, or -1 when the
\* descriptor is bad, the master is dead, the range leaves the buffer
\* (the kernel may reject it) or the call fails.
WriteReturns(l, room) ==
    IF l.fd1 = -1 \/ DeadMaster(l.fd1) THEN {-1}
    ELSE (1..Min(l.buffer_length, room))
           \cup (IF MayFail \/ ~InBuffer(l) THEN {-1} ELSE {})

\* The call consumed a failure of the environment.
EnvFault(l, ret) ==
    ret = -1 /\ l.fd1 # -1 /\ ~DeadMaster(l.fd1) /\ InBuffer(l)

\* The locals after the write of buffered data returned ret (lines
\* 229-234).  n_written is a size_t, so ASSERT_NONNEG never fails.
AfterWrite(l, ret) ==
    LET n_written == SizeT(ret)
    IN [l EXCEPT
          !.buffer_offset = AdvanceOffset(@, n_written),
          !.buffer_length = ReduceLength(@, n_written),
          !.pc = "while"]

\* if (buffer_length > 0): write the buffered bytes and fsync (lines
\* 226-240).  A failing fsync ends the process.
WriteData(p) ==
    /\ pump[p].buffer_length > 0
    /\ \E ret \in WriteReturns(pump[p], Room(p)), synced \in BOOLEAN,
          g \in StackBytes :
         /\ ~synced => (MayFail /\ ~EnvFault(pump[p], ret))
         /\ hist' = [hist EXCEPT
                       ![p].wr = IF ret > 0 THEN @ \o BytesFrom(pump[p], ret, g)
                                 ELSE @,
                       ![p].badfd = @ \/ pump[p].fd1 = -1,
                       ![p].iofail = @ \/ ret = -1 \/ ~synced,
                       ![p].wild = IF InBuffer(pump[p]) THEN @ ELSE @ + 1]
         /\ faults' = faults + (IF EnvFault(pump[p], ret) THEN 1 ELSE 0)
                             + (IF synced THEN 0 ELSE 1)
         /\ IF synced
            THEN /\ pump' = [pump EXCEPT ![p] = AfterWrite(pump[p], ret)]
                 /\ UNCHANGED <<proc, exitcode>>
            ELSE /\ AssertFails
                 /\ UNCHANGED pump

\* isastream(fd) || isatty(fd) (line 244): true of the master; for another
\* descriptor, and for -1 (isastream returns -1 there), either.
TerminalLike(fd) == IF fd = FDM THEN {TRUE} ELSE {TRUE, FALSE}

\* The values the completion write of count bytes can return (lines 245,
\* 254).
CompletionReturns(l, count) ==
    IF l.fd1 = -1 \/ DeadMaster(l.fd1) THEN {-1}
    ELSE {count} \cup (IF MayFail THEN {-1} ELSE {})

\* A completion write after which the pump goes on.
AfterCompletion_goes_on(l) == [l EXCEPT !.pc = "while"]

\* keep_going = 0 after the completion write (line 263).
AfterCompletion(l) == [l EXCEPT !.keep_going = FALSE, !.pc = "while"]

\* else if (found_eof): the end-of-transmission byte or a zero-length write,
\* fsync, keep_going = 0 (lines 241-264).  The return value is compared as
\* a signed number here, so a failing write ends the process.
WriteCompletion(p) ==
    /\ pump[p].buffer_length = 0
    /\ pump[p].found_eof
    /\ \E tty \in TerminalLike(pump[p].fd1) :
         LET count == IF info(p).send_eot /\ tty THEN 1 ELSE 0
         IN \E ret \in CompletionReturns(pump[p], count), synced \in BOOLEAN :
              /\ ~synced => (MayFail /\ ret >= 0)
              /\ hist' = [hist EXCEPT
                            ![p].wr = IF ret = 1 THEN Append(@, eot_char) ELSE @,
                            ![p].eots = IF ret = 1 THEN @ + 1 ELSE @,
                            ![p].zeros = IF ret = 0 /\ count = 0 THEN @ + 1 ELSE @,
                            ![p].badfd = @ \/ pump[p].fd1 = -1,
                            ![p].iofail = @ \/ ret = -1 \/ ~synced]
              /\ faults' = faults
                    + (IF ret = -1 /\ pump[p].fd1 # -1 /\ ~DeadMaster(pump[p].fd1)
                       THEN 1 ELSE 0)
                    + (IF synced THEN 0 ELSE 1)
              /\ IF ret >= 0 /\ synced
                 THEN /\ pump' = [pump EXCEPT ![p] = AfterCompletion(@)]
                      /\ UNCHANGED <<proc, exitcode>>
                 ELSE /\ AssertFails
                      /\ UNCHANGED pump

\* POLLOUT with an empty buffer and no end-of-file: nothing to write.
WriteNothing(p) ==
    /\ pump[p].buffer_length = 0
    /\ ~pump[p].found_eof
    /\ pump' = [pump EXCEPT ![p].pc = "while"]
    /\ UNCHANGED <<proc, exitcode, hist, faults>>

\* if (poll_fds[1].revents & POLLOUT) { ... } (lines 225-265).
Write(p) ==
    /\ proc = "running"
    /\ pump[p].pc = "write"
    /\ \/ WriteData(p)
       \/ WriteCompletion(p)
       \/ WriteNothing(p)
    /\ UNCHANGED <<argc, mainpc, exitstatus, fdm, fds, failedAt, status,
                   childVars, envVars, all_done>>

\* Every pump sets the flag when it leaves.
EndAll_any(p) == TRUE

\* if (info->end_all) (line 268).
EndAll(p) == info(p).end_all

\* The loop condition fails (line 185); if (info->end_all) all_done = 1;
\* return NULL (lines 268-279).
Finish(p) ==
    /\ proc = "running"
    /\ pump[p].pc = "while"
    /\ ~LoopContinues(KeepGoing(pump[p].keep_going, all_done),
                      pump[p].buffer_length)
    /\ all_done' = (all_done \/ EndAll(p))
    /\ pump' = [pump EXCEPT ![p].keep_going = KeepGoing(@, all_done),
                            ![p].pc = "done"]
    /\ UNCHANGED <<mainVars, childVars, envVars, hist, faults>>

(* --------------------------- specification ---------------------------- *)

Next ==
    \/ MainSetupStep
    \/ \E p \in Pumps : CreateThread(p)
    \/ CloseFds
    \/ Waitpid
    \/ \E p \in Pumps : Join(p)
    \/ CaptureStatus
    \/ CloseFdm
    \/ Return
    \/ ChildSetupRun
    \/ ChildWrite
    \/ ChildExit
    \/ StdinFeed
    \/ StdinClose
    \/ \E p \in Pumps : Iterate(p)
    \/ \E p \in Pumps : Write(p)
    \/ \E p \in Pumps : Finish(p)

Spec == Init /\ [][Next]_vars

TypeOK ==
    /\ proc \in {"running", "exited", "returned"}
    /\ \A p \in Pumps :
         /\ pump[p].buffer_length \in 0..SIZE_MAX
         /\ pump[p].buffer_offset \in 0..SIZE_MAX
         /\ pump[p].pc \in {"idle", "while", "write", "done"}

(* ------------------------------ properties ---------------------------- *)

\* The bytes pump p has read from its source: the k-th byte is the number k.
ReadSeq(p) == [i \in 1..hist[p].nread |-> i]

\* The data bytes pump p has delivered: all it delivered but a final
\* end-of-transmission byte.
DataWritten(p) ==
    IF hist[p].eots > 0 THEN SubSeq(hist[p].wr, 1, Len(hist[p].wr) - 1)
    ELSE hist[p].wr

\* The child has terminated.
ChildGone == child \in {"exited", "reaped"}

\* C1: for each pump whose reads and writes all succeeded (reads of
\* 1..BUFFER_SIZE bytes, writes accepting 1..remaining bytes), the data
\* bytes written to the destination are a prefix of the bytes read from the
\* source: same order, no gap, no duplicate.
C1_WrittenIsPrefixOfRead ==
    \A p \in Pumps :
      ~hist[p].iofail => IsPrefix(DataWritten(p), ReadSeq(p))

\* A pump has read two bytes in one read and a partial write has taken the
\* first of them.
C1_Witness ==
    \E p \in Pumps :
      /\ ~hist[p].iofail
      /\ hist[p].nread = 2
      /\ hist[p].wr = <<1>>
      /\ pump[p].buffer_offset = 1
      /\ pump[p].buffer_length = 1

\* C2: once the input pump has delivered the end-of-transmission byte, what
\* it has delivered to the master is exactly the bytes it read from standard
\* input, in order, followed by that one byte.
C2_InputThenOneEot ==
    hist[0].eots >= 1 => hist[0].wr = ReadSeq(0) \o <<eot_char>>

\* C3: the output pump writes no end-of-transmission byte and no byte it
\* did not read from the master: what is on standard output is a prefix of
\* what was read from the master.
C3_OutputOnlyWhatWasRead ==
    /\ hist[1].eots = 0
    /\ IsPrefix(hist[1].wr, ReadSeq(1))

\* C4: when main returns from the parent branch, the exit status is the
\* child's exit code if it terminated normally and EXIT_FAILURE if a
\* signal killed it; the decoding gives back every exit code 0..255 and
\* maps every signal to EXIT_FAILURE.
C4_ExitStatus ==
    proc = "returned" =>
      /\ exitcode = (IF childInfo.term.kind = "exit" THEN childInfo.term.val
                     ELSE EXIT_FAILURE)
      /\ \A c \in 0..255 :
           Captured(WaitStatus([kind |-> "exit", val |-> c]), EXIT_FAILURE) = c
      /\ \A g \in 1..127 :
           Captured(WaitStatus([kind |-> "signal", val |-> g]), EXIT_FAILURE)
             = EXIT_FAILURE

\* main has returned the exit code 255 of the command.
C4_Witness ==
    /\ proc = "returned"
    /\ childInfo.term = [kind |-> "exit", val |-> 255]
    /\ childInfo.execed

\* C5: with no failing system call and standard output still there, once
\* the child has exited the session is on its way to main's return: the
\* process has not ended through exit().
C5_SessionReturns ==
    (ChildGone /\ faults = 0 /\ pump[1].fd1 = STDOUT_FILENO)
      => proc # "exited"

\* C6: the input pump issues no write call on its retired destination
\* (descriptor -1), so no such call can fail an assertion.
C6_NoWriteOnRetired == ~hist[0].badfd

\* C7: once main has closed the master, and when it has returned, waitpid
\* has collected the child and both pump threads have terminated.
C7_CloseAfterJoins ==
    (fdm = "closed" \/ mainpc \in {"return", "returned"})
      => /\ child = "reaped"
         /\ \A p \in Pumps : pump[p].pc = "done"

\* main has closed the master after a session that moved data both ways.
C7_Witness ==
    /\ fdm = "closed"
    /\ hist[0].nread > 0
    /\ hist[1].nread > 0

\* C8: a poll, read or write of a pump that returned -1 has ended the
\* process.
C8_FailureIsFatal ==
    \A p \in Pumps : hist[p].iofail => proc = "exited"

\* The set-up calls of main that came before x.
Before(x) == {MainSetup[i] : i \in 1..(IndexOf(MainSetup, x) - 1)}

\* C9: a failed set-up step of main has ended the process with
\* EXIT_FAILURE where it failed: nothing a later step creates exists, no
\* child was forked and no pump was started.  A failed set-up call of the
\* child has ended the child with EXIT_FAILURE before the command ran.
C9_SetupFailureIsFatal ==
    /\ failedAt # "" =>
         /\ proc = "exited"
         /\ exitcode = EXIT_FAILURE
         /\ mainpc = failedAt
         /\ fdm = (IF "posix_openpt" \in Before(failedAt) THEN "open" ELSE "none")
         /\ fds = (IF "open" \in Before(failedAt) THEN "open" ELSE "none")
         /\ child = "none"
         /\ \A p \in Pumps : pump[p].pc = "idle"
    /\ childInfo.failed # "" =>
         /\ ChildGone
         /\ ~childInfo.execed
         /\ childInfo.calls = IndexOf(ChildSetup, childInfo.failed)
         /\ childInfo.term = [kind |-> "exit", val |-> EXIT_FAILURE]

\* unlockpt has failed.
C9_Witness ==
    /\ failedAt = "unlockpt"
    /\ proc = "exited"

\* C10: with the termination flag set, a pump that evaluates its loop
\* condition with an empty buffer leaves the loop at that evaluation,
\* whatever its descriptors report.
C10_FlagEndsSibling ==
    [][\A p \in Pumps :
         (all_done /\ pump[p].pc = "while" /\ pump[p].buffer_length = 0
            /\ pump[p]' # pump[p])
           => pump[p]'.pc = "done"]_vars

\* The input pump has left its loop on the flag alone: it saw no
\* end-of-file and no hang-up, and both its descriptors are still active.
C10_Witness ==
    /\ all_done
    /\ pump[0].pc = "done"
    /\ ~pump[0].found_eof
    /\ pump[0].fd0 = STDIN_FILENO
    /\ pump[0].fd1 = FDM
    /\ pump[1].pc = "done"

\* C11: in every reachable state of a pump, buffer_offset + buffer_length is
\* at most BUFFER_SIZE, so every write reads only from inside the buffer.
C11_WithinBuffer ==
    \A p \in Pumps : pump[p].buffer_offset + pump[p].buffer_length <= BUFFER_SIZE

\* C12: every read a pump has issued was issued with an empty buffer
\* (buffer_length = 0 at the call), so no unsent byte is overwritten by a
\* read: what a pump has not yet sent of its buffer are the last bytes it
\* read.
C12_ReadsOnEmptyBuffer ==
    \A p \in Pumps :
      /\ hist[p].rdlen = 0
      /\ (~hist[p].iofail /\ InBuffer(pump[p])) =>
           \A j \in 1..pump[p].buffer_length :
             pump[p].buffer[pump[p].buffer_offset + j - 1]
               = hist[p].nread - pump[p].buffer_length + j

\* A pump has read a second chunk after the first was drained, while the
\* source had a byte waiting all along: two reads of one byte each, the
\* first byte delivered, the second in the buffer.
C12_Witness ==
    \E p \in Pumps :
      /\ ~hist[p].iofail
      /\ hist[p].nread = 2
      /\ hist[p].wr = <<1>>
      /\ pump[p].buffer[0] = 2
      /\ pump[p].buffer_offset = 0
      /\ pump[p].buffer_length = 1

\* C13: the termination flag starts false, never returns to false, and
\* becomes true only in the step in which the output pump (the one with
\* end_all) leaves its loop; the input pump leaving its loop does not change
\* it.
C13_FlagWrittenByOutputPump ==
    /\ ~all_done
    /\ [][/\ all_done => all_done'
          /\ (all_done' /\ ~all_done) =>
               (writer_info.end_all /\ pump[1].pc = "while"
                  /\ pump[1]'.pc = "done")
          /\ (pump[0].pc # "done" /\ pump[0]'.pc = "done") =>
               all_done' = all_done]_vars

\* The input pump has left its loop after the end-of-transmission byte, the
\* flag is still false and the output pump is relaying a byte of the
\* running child.
C13_Witness ==
    /\ pump[0].pc = "done"
    /\ hist[0].eots = 1
    /\ ~all_done
    /\ child = "running"
    /\ pump[1].pc = "write"
    /\ pump[1].buffer_length > 0

\* C14: the step in which a pump observes hang-up on its destination retires
\* the destination, empties the buffer (offset and length 0) and clears
\* keep_going; from then on the pump issues no system call and all it does
\* is reach the loop condition and leave the loop there.
C14_HangupEndsPump ==
    [][\A p \in Pumps :
         /\ (pump[p].fd1 # -1 /\ pump'[p].fd1 = -1) =>
              /\ ~pump'[p].keep_going
              /\ pump'[p].buffer_length = 0
              /\ pump'[p].buffer_offset = 0
         /\ (pump[p].fd1 = -1
               /\ <<pump'[p], hist'[p]>> # <<pump[p], hist[p]>>) =>
              /\ hist'[p] = hist[p]
              /\ ~pump'[p].keep_going
              /\ pump'[p].buffer_length = 0
              /\ pump'[p].pc = (IF pump[p].pc = "write" THEN "while"
                                ELSE "done")]_vars

\* C15: a pump declares source end-of-file only in a step in which its
\* source has nothing left to read and is at end-of-file (standard input
\* closed, the master hung up), so data reported together with a hang-up is
\* read first; the source is retired exactly when end-of-file is declared,
\* and after that the pump reads nothing more from it.
C15_EofOnlyWhenDrained ==
    [][\A p \in Pumps :
         /\ (~pump[p].found_eof /\ pump'[p].found_eof) =>
              /\ Avail(p) = 0
              /\ IF p = 0 THEN inClosed ELSE MasterHup
         /\ (pump[p].fd0 # -1 /\ pump'[p].fd0 = -1) => pump'[p].found_eof
         /\ pump'[p].found_eof => pump'[p].fd0 = -1
         /\ pump[p].found_eof =>
              /\ pump'[p].found_eof
              /\ hist'[p].nread = hist[p].nread]_vars

\* The child has exited after writing two bytes; the output pump has read
\* and delivered both and has then declared end-of-file on the hang-up.
C15_Witness ==
    /\ ChildGone
    /\ pump[1].found_eof
    /\ pump[1].fd0 = -1
    /\ hist[1].nread = 2
    /\ hist[1].wr = <<1, 2>>

\* C16: a pump delivers at most one completion write in its lifetime, and
\* the end-of-transmission byte only where end-of-file has been seen, the
\* buffer is empty, the destination was reported writable, the pump has
\* send_eot and the destination is the terminal; after the completion write
\* the pump has keep_going cleared and an empty buffer and is at the loop
\* condition or has left the loop, unless the fsync that follows the write
\* failed and ended the process there.
C16_OneCompletionWrite ==
    /\ [](\A p \in Pumps :
            /\ hist[p].eots + hist[p].zeros <= 1
            /\ hist[p].eots >= 1 => info(p).send_eot
            /\ hist[p].eots + hist[p].zeros >= 1 =>
                 /\ pump[p].found_eof
                 /\ pump[p].buffer_length = 0
                 /\ \/ pump[p].pc = "write" /\ proc = "exited"
                    \/ ~pump[p].keep_going /\ pump[p].pc \in {"while", "done"})
    /\ [][\A p \in Pumps :
            (hist'[p].eots + hist'[p].zeros # hist[p].eots + hist[p].zeros) =>
              /\ pump[p].pc = "write"
              /\ pump[p].found_eof
              /\ pump[p].buffer_length = 0
              /\ hist'[p].eots # hist[p].eots =>
                   (info(p).send_eot /\ pump[p].fd1 = FDM
                      /\ hist'[p].wr = Append(hist[p].wr, eot_char))
              /\ hist'[p].zeros # hist[p].zeros => hist'[p].wr = hist[p].wr]_vars

\* The input pump has left its loop after two bytes and the
\* end-of-transmission byte; the output pump has left its loop after its
\* zero-length write.
C16_Witness ==
    /\ pump[0].pc = "done"
    /\ hist[0].eots = 1
    /\ hist[0].wr = <<1, 2, eot_char>>
    /\ pump[1].pc = "done"
    /\ hist[1].zeros = 1

\* C17: a pump at the loop condition with the flag set and bytes in its
\* buffer stays in the loop, reads nothing and keeps its buffered bytes
\* unless the destination hangs up; a pump that has left its loop has an
\* empty buffer, and every byte it read has been written to the destination
\* unless the destination hung up.
C17_LeavesWithEmptyBuffer ==
    /\ [](\A p \in Pumps :
            pump[p].pc = "done" =>
              /\ pump[p].buffer_length = 0
              /\ pump[p].fd1 # -1 =>
                   \A i \in 1..hist[p].nread :
                     \E j \in 1..Len(hist[p].wr) : hist[p].wr[j] = i)
    /\ [][\A p \in Pumps :
            (all_done /\ pump[p].pc = "while" /\ pump[p].buffer_length > 0
               /\ pump'[p] # pump[p]) =>
              /\ pump'[p].pc \in {"while", "write"}
              /\ ~pump'[p].keep_going
              /\ hist'[p].nread = hist[p].nread
              /\ pump'[p].fd1 # -1 =>
                   /\ pump'[p].buffer_length = pump[p].buffer_length
                   /\ pump'[p].buffer_offset = pump[p].buffer_offset]_vars

\* The input pump has seen the flag with the second of two bytes still in
\* its buffer and is at the write of it: no end-of-file, no hang-up.
C17_Witness ==
    /\ all_done
    /\ pump[0].pc = "write"
    /\ ~pump[0].keep_going
    /\ ~pump[0].found_eof
    /\ pump[0].fd1 = FDM
    /\ pump[0].buffer_offset = 1
    /\ pump[0].buffer_length = 1
    /\ hist[0].wr = <<1>>

\* The positions of main from waitpid on.
FromWaitpid ==
    {"waitpid", "join_reader", "join_writer", "wifexited", "close_fdm",
     "return", "returned"}

\* C18: from waitpid on the parent's copy of the slave is closed, so once
\* the child has exited no slave descriptor is open and every poll reports
\* hang-up on the master, to the output pump as its source and to the input
\* pump as its destination.
C18_SlaveClosedBeforeWait ==
    mainpc \in FromWaitpid =>
      /\ fds = "closed"
      /\ ChildGone =>
           /\ MasterHup
           /\ pump[1].fd0 = FDM => \A r \in SrcEvents(1) : POLLHUP \in r
           /\ pump[0].fd1 = FDM => \A r \in DstEvents(0) : POLLHUP \in r

\* main is past waitpid and both pumps have seen the hang-up of the master:
\* the output pump as end-of-file of its source, the input pump on its
\* destination.
C18_Witness ==
    /\ mainpc = "join_reader"
    /\ child = "reaped"
    /\ childInfo.execed
    /\ pump[1].found_eof
    /\ pump[1].fd0 = -1
    /\ pump[0].fd1 = -1

\* C19: within a pump the shutdown state only moves forward: keep_going once
\* false stays false, found_eof once set stays set, a retired descriptor
\* (-1) stays retired, nothing is read after the source is retired, and no
\* write is issued or delivered after the destination is retired.
C19_ShutdownMovesForward ==
    [][\A p \in Pumps :
         /\ ~pump[p].keep_going => ~pump'[p].keep_going
         /\ pump[p].found_eof => pump'[p].found_eof
         /\ pump[p].fd0 = -1 =>
              (pump'[p].fd0 = -1 /\ hist'[p].nread = hist[p].nread)
         /\ pump[p].fd1 = -1 =>
              /\ pump'[p].fd1 = -1
              /\ hist'[p].wr = hist[p].wr
              /\ hist'[p].badfd = hist[p].badfd]_vars

====
